---- MODULE Spec2Model ----
(***************************************************************************)
(* Model of the YaMDb review-aggregation backend (api_yamdb): the identity *)
(* store, the catalog store, the feedback store, the permission classes,   *)
(* the rating aggregation and the registration / token views.              *)
(*                                                                         *)
(* Every request handler is a function of the stores and the request: it  *)
(* returns the response together with the stores after the request.  One   *)
(* action per handler applies it atomically (permission check, object      *)
(* lookup, serializer validation, save), as one HTTP request runs in the   *)
(* code.  The specification ConcSpec splits review creation into its two   *)
(* steps (validation, insert) to study concurrent requests.                *)
(*                                                                         *)
(* Optional values (Python None) are sets with at most one element.        *)
(* pub_date (auto_now_add, never written again) and first_name/last_name   *)
(* (free text handled exactly as bio) are left out of the records.         *)
(***************************************************************************)
EXTENDS Integers, Sequences, FiniteSets, TLC

VARIABLES users, nextUserId, categories, genres, titles, nextTitleId,
          reviews, nextReviewId, comments, nextCommentId,
          mail, inflight, request, response

vars == <<users, nextUserId, categories, genres, titles, nextTitleId,
          reviews, nextReviewId, comments, nextCommentId,
          mail, inflight, request, response>>

identityVars == <<users, nextUserId, mail>>
catalogVars == <<categories, genres, titles, nextTitleId>>
feedbackVars == <<reviews, nextReviewId, comments, nextCommentId>>

-----------------------------------------------------------------------------
(* Bounds of the model *)

MaxReviews == 2
MaxComments == 1
MaxScores == 3
MaxTitles == 1
MaxUsers == 3
MaxInflight == 2
YearSpan == 1

-----------------------------------------------------------------------------
(* Program constants *)

USER_ROLE_USER == "user"
USER_ROLE_MODERATOR == "moderator"
USER_ROLE_ADMIN == "admin"
USER_ROLE_CHOICES == {USER_ROLE_USER, USER_ROLE_MODERATOR, USER_ROLE_ADMIN}

SAFE_METHODS == {"GET", "HEAD", "OPTIONS"}

\* api_yamdb/settings.py
CINEMATOGRAPHY_CREATION_YEAR == 1895

\* datetime.now().year, some years after the first film
year_now == CINEMATOGRAPHY_CREATION_YEAR + YearSpan

None == {}
Some(x) == {x}

\* request.user of a request without credentials (AnonymousUser, no pk)
Anonymous == 0

is_authenticated(actor) == actor # Anonymous /\ actor \in DOMAIN users

\* HTTP method of each viewset action
Method(op) ==
    CASE op \in {"list", "retrieve"} -> "GET"
      [] op = "create" -> "POST"
      [] op = "update" -> "PUT"
      [] op = "partial_update" -> "PATCH"
      [] op = "destroy" -> "DELETE"

-----------------------------------------------------------------------------
(* api/permissions.py *)

IsAdmin(actor) ==
    is_authenticated(actor)
    /\ (users[actor].role = USER_ROLE_ADMIN \/ users[actor].is_superuser)

IsOwnerAdminModeratorOrReadOnly_has_permission(method, actor) ==
    method \in SAFE_METHODS \/ is_authenticated(actor)

HasObjectPermissionAuthorOnly(method, actor, obj) ==
    method \in SAFE_METHODS \/ obj.author = actor

HasObjectPermissionAnyone(method, actor, obj) == TRUE

\* evaluated only after has_permission allowed the request
IsOwnerAdminModeratorOrReadOnly_has_object_permission(method, actor, obj) ==
    \/ method \in SAFE_METHODS
    \/ obj.author = actor
    \/ users[actor].role \in {USER_ROLE_MODERATOR, USER_ROLE_ADMIN}

IsAdminOrReadOnlyRoleOnly(method, actor) ==
    method \in SAFE_METHODS
    \/ (is_authenticated(actor) /\ users[actor].role = USER_ROLE_ADMIN)

IsAdminOrReadOnly(method, actor) ==
    method \in SAFE_METHODS
    \/ (is_authenticated(actor)
        /\ (users[actor].is_superuser \/ users[actor].role = USER_ROLE_ADMIN))

-----------------------------------------------------------------------------
(* Arithmetic helpers *)

RECURSIVE SumScores(_)
SumScores(rs) ==
    IF rs = {} THEN 0
    ELSE LET r == CHOOSE x \in rs : TRUE
         IN r.score + SumScores(rs \ {r})

\* round-half-up of total / count: the variant Python's round() is not
RoundHalfUp(total, count) ==
    LET fl == total \div count
        rem2 == 2 * (total % count)
    IN IF rem2 < count THEN fl ELSE fl + 1

\* Python 3 round(total / count) for positive ints: nearest integer, an
\* exact half goes to the even neighbour (the float quotient of small ints
\* is a half exactly when the rational quotient is)
python_round(total, count) ==
    LET fl == total \div count
        rem2 == 2 * (total % count)
    IN IF rem2 < count THEN fl
       ELSE IF rem2 > count THEN fl + 1
       ELSE IF fl % 2 = 0 THEN fl ELSE fl + 1

-----------------------------------------------------------------------------
(* Requests and responses.  A response status is the name of the HTTP      *)
(* outcome: ok (200), created (201), no_content (204), bad_request (400,   *)
(* a ValidationError; data holds the names of the fields in error),        *)
(* not_authenticated / permission_denied (a permission class refused:      *)
(* rest_framework raises NotAuthenticated for a request without            *)
(* credentials and PermissionDenied otherwise), not_found (404),           *)
(* method_not_allowed (405), and for an exception that no handler catches  *)
(* (500) integrity_error (django.db.IntegrityError of a UNIQUE constraint) *)
(* or server_error (any other).                                            *)

Req(op, resource) == [op |-> op, resource |-> resource]

Resp(status, data) == [status |-> status, data |-> data]

\* the empty mapping: a request body without fields, an empty table
NoData == [x \in {} |-> 0]

Deny(actor) ==
    IF is_authenticated(actor) THEN "permission_denied"
    ELSE "not_authenticated"

Denied == {"permission_denied", "not_authenticated"}

\* what a handler of the feedback store returns: the response and the
\* feedback store after the request
Out(status, data, rs, nr, cs, nc) ==
    [status |-> status, data |-> data, reviews |-> rs, nextReviewId |-> nr,
     comments |-> cs, nextCommentId |-> nc]

\* a response that leaves the feedback store as it is
Refuse(status, data) ==
    Out(status, data, reviews, nextReviewId, comments, nextCommentId)

\* one request served: the handler's result becomes the state
Serve(op, resource, o) ==
    /\ request' = Req(op, resource)
    /\ response' = Resp(o.status, o.data)
    /\ reviews' = o.reviews
    /\ nextReviewId' = o.nextReviewId
    /\ comments' = o.comments
    /\ nextCommentId' = o.nextCommentId
    /\ UNCHANGED <<identityVars, catalogVars, inflight>>

-----------------------------------------------------------------------------
(* Feedback store: reviews/models.py Review, Comment; api/serializers.py *)

\* the lookup made on a shifted column: it never finds the author's review
Review_objects_filter_wrong(author, title) ==
    {r \in reviews : r.author = author /\ r.title = title /\ r.id = 0}

\* Review.objects.filter(author=..., title=...)
Review_objects_filter(author, title) ==
    {r \in reviews : r.author = author /\ r.title = title}

unique_title_dropped(rs) == TRUE

\* Review.Meta.constraints: UniqueConstraint(fields=('title', 'author'))
unique_title(rs) ==
    \A r1, r2 \in rs :
        (r1.title = r2.title /\ r1.author = r2.author) => r1 = r2

validate_score_no_upper(value) == 1 <= value

\* ReviewSerializer.validate_score: TRUE when the value passes
validate_score(value) == 1 <= value /\ value <= 10

\* ReviewSerializer.validate_title: TRUE when the value passes
validate_title(actor, title) == Review_objects_filter(actor, title) = {}

\* UniqueTogetherValidator(queryset=Review.objects.all(),
\*                         fields=('author', 'title')); on update the
\* instance itself is excluded from the queryset
UniqueTogetherValidator(author, title, instance) ==
    (Review_objects_filter(author, title) \ instance) = {}

\* Field-level validation of ReviewSerializer: the names of the fields in
\* error.  text is a required non-blank TextField, score a required
\* PositiveIntegerField (min_value 0) followed by validate_score, title a
\* HiddenField whose default is the title of the URL, followed by
\* validate_title; a partial update skips the fields that are absent and
\* the fields that only have a default.
ReviewFieldErrors(actor, title, data, partial) ==
    LET textErr ==
            IF "text" \in DOMAIN data THEN data.text = ""
            ELSE ~partial
        scoreErr ==
            IF "score" \in DOMAIN data
            THEN data.score < 0 \/ ~validate_score(data.score)
            ELSE ~partial
        titleErr == ~partial /\ ~validate_title(actor, title)
    IN (IF textErr THEN {"text"} ELSE {})
       \cup (IF scoreErr THEN {"score"} ELSE {})
       \cup (IF titleErr THEN {"title"} ELSE {})

\* ModelSerializer.update: the validated fields are set on the instance
Merge(obj, data) ==
    [f \in DOMAIN obj |-> IF f \in DOMAIN data THEN data[f] ELSE obj[f]]

get_rating_all_titles(obj) ==
    IF reviews = {} THEN None
    ELSE Some(python_round(SumScores(reviews), Cardinality(reviews)))

get_rating_zero(obj) ==
    LET total_scores == {r \in reviews : r.title = obj}
    IN IF total_scores = {} THEN Some(0)
       ELSE Some(python_round(SumScores(total_scores),
                              Cardinality(total_scores)))

get_rating_half_up(obj) ==
    LET total_scores == {r \in reviews : r.title = obj}
    IN IF total_scores = {} THEN None
       ELSE Some(RoundHalfUp(SumScores(total_scores),
                             Cardinality(total_scores)))

\* TitleReadSerializer.get_rating
get_rating(obj) ==
    LET total_scores == {r \in reviews : r.title = obj}
    IN IF total_scores = {} THEN None
       ELSE Some(python_round(SumScores(total_scores),
                              Cardinality(total_scores)))

\* on_delete=models.CASCADE from Review to Comment: the comments whose
\* review is among rs
CommentsOf(rs) == {c \in comments : c.review \in {r.id : r \in rs}}

-----------------------------------------------------------------------------
(* ReviewViewSet *)

\* ReviewViewSet.get_queryset filtered by pk: title.reviews.all() with
\* that pk (get_object_or_404 on both the title and the review)
ReviewLookup(title, pk) ==
    IF title \in DOMAIN titles
    THEN {r \in reviews : r.title = title /\ r.id = pk}
    ELSE {}

\* GET /titles/{title_id}/reviews/ (pk = 0) and .../reviews/{pk}/
review_read(actor, title, pk) ==
    IF ~IsOwnerAdminModeratorOrReadOnly_has_permission("GET", actor)
    THEN Refuse(Deny(actor), None)
    ELSE IF title \notin DOMAIN titles
    THEN Refuse("not_found", None)
    ELSE IF pk # 0 /\ ReviewLookup(title, pk) = {}
    THEN Refuse("not_found", None)
    ELSE Refuse("ok", None)

\* POST /titles/{title_id}/reviews/ up to serializer.is_valid: the
\* permission, the title of the URL (CurrentTitleDefault), the fields, then
\* the UniqueTogetherValidator; "valid" when perform_create is to run
review_create_validate(actor, title, data) ==
    LET errors == ReviewFieldErrors(actor, title, data, FALSE)
    IN IF ~IsOwnerAdminModeratorOrReadOnly_has_permission("POST", actor)
       THEN Refuse(Deny(actor), None)
       ELSE IF title \notin DOMAIN titles
       THEN Refuse("not_found", None)
       ELSE IF errors # {}
       THEN Refuse("bad_request", errors)
       ELSE IF ~UniqueTogetherValidator(actor, title, {})
       THEN Refuse("bad_request", {"non_field_errors"})
       ELSE Refuse("valid", None)

\* ReviewViewSet.perform_create: the title is looked up again and the row
\* inserted; the UNIQUE constraint of the table raises IntegrityError,
\* which nothing handles
perform_create(actor, title, data) ==
    LET new == [id |-> nextReviewId, author |-> actor, title |-> title,
                score |-> data.score, text |-> data.text]
    IN IF title \notin DOMAIN titles
       THEN Refuse("not_found", None)
       ELSE IF ~unique_title(reviews \cup {new})
       THEN Refuse("integrity_error", None)
       ELSE Out("created", None, reviews \cup {new}, nextReviewId + 1,
                comments, nextCommentId)

\* POST /titles/{title_id}/reviews/ served without interruption
review_create(actor, title, data) ==
    LET v == review_create_validate(actor, title, data)
    IN IF v.status # "valid" THEN v
       ELSE perform_create(actor, title, data)

\* PUT (partial = FALSE) and PATCH (partial = TRUE)
\* /titles/{title_id}/reviews/{pk}/
review_update(actor, title, pk, data, partial) ==
    LET method == IF partial THEN "PATCH" ELSE "PUT"
        found == ReviewLookup(title, pk)
        obj == CHOOSE r \in found : TRUE
        saved == Merge(obj, data)
        errors == ReviewFieldErrors(actor, title, data, partial)
    IN IF ~IsOwnerAdminModeratorOrReadOnly_has_permission(method, actor)
       THEN Refuse(Deny(actor), None)
       ELSE IF found = {}
       THEN Refuse("not_found", None)
       ELSE IF ~IsOwnerAdminModeratorOrReadOnly_has_object_permission(
                   method, actor, obj)
       THEN Refuse(Deny(actor), None)
       ELSE IF errors # {}
       THEN Refuse("bad_request", errors)
       ELSE IF ~UniqueTogetherValidator(
                   IF partial THEN obj.author ELSE actor, title, {obj})
       THEN Refuse("bad_request", {"non_field_errors"})
       ELSE IF ~unique_title((reviews \ {obj}) \cup {saved})
       THEN Refuse("integrity_error", None)
       ELSE Out("ok", None, (reviews \ {obj}) \cup {saved}, nextReviewId,
                comments, nextCommentId)

\* DELETE /titles/{title_id}/reviews/{pk}/
review_destroy(actor, title, pk) ==
    LET found == ReviewLookup(title, pk)
        obj == CHOOSE r \in found : TRUE
    IN IF ~IsOwnerAdminModeratorOrReadOnly_has_permission("DELETE", actor)
       THEN Refuse(Deny(actor), None)
       ELSE IF found = {}
       THEN Refuse("not_found", None)
       ELSE IF ~IsOwnerAdminModeratorOrReadOnly_has_object_permission(
                   "DELETE", actor, obj)
       THEN Refuse(Deny(actor), None)
       ELSE Out("no_content", None, reviews \ {obj}, nextReviewId,
                comments \ CommentsOf({obj}), nextCommentId)

ReviewRead(actor, title, pk) ==
    Serve(IF pk = 0 THEN "list" ELSE "retrieve", "review",
          review_read(actor, title, pk))

ReviewCreate(actor, title, data) ==
    LET o == review_create(actor, title, data)
    IN /\ o.status = "created" => nextReviewId <= MaxReviews
       /\ Serve("create", "review", o)

ReviewUpdate(actor, title, pk, data, partial) ==
    Serve(IF partial THEN "partial_update" ELSE "update", "review",
          review_update(actor, title, pk, data, partial))

ReviewDestroy(actor, title, pk) ==
    Serve("destroy", "review", review_destroy(actor, title, pk))

-----------------------------------------------------------------------------
(* CommentViewSet *)

\* CommentSerializer: text is the only writable field (required, non-blank)
CommentFieldErrors(data, partial) ==
    IF (IF "text" \in DOMAIN data THEN data.text = "" ELSE ~partial)
    THEN {"text"} ELSE {}

\* title.reviews.get(pk=review_id): the reviews of the title with that pk;
\* an empty result raises Review.DoesNotExist, which nothing catches
TitleReviewsGet(title, review_id) ==
    {r \in reviews : r.title = title /\ r.id = review_id}

\* CommentViewSet.get_queryset filtered by pk
CommentLookup(review_id, pk) ==
    {c \in comments : c.review = review_id /\ c.id = pk}

\* GET .../reviews/{review_id}/comments/ (pk = 0) and .../comments/{pk}/
comment_read(actor, title, review_id, pk) ==
    IF ~IsOwnerAdminModeratorOrReadOnly_has_permission("GET", actor)
    THEN Refuse(Deny(actor), None)
    ELSE IF title \notin DOMAIN titles
    THEN Refuse("not_found", None)
    ELSE IF TitleReviewsGet(title, review_id) = {}
    THEN Refuse("server_error", None)
    ELSE IF pk # 0 /\ CommentLookup(review_id, pk) = {}
    THEN Refuse("not_found", None)
    ELSE Refuse("ok", None)

\* POST .../reviews/{review_id}/comments/ : the serializer is validated
\* before perform_create looks the title and the review up
comment_create(actor, title, review_id, data) ==
    LET new == [id |-> nextCommentId, author |-> actor,
                review |-> review_id, text |-> data.text]
        errors == CommentFieldErrors(data, FALSE)
    IN IF ~IsOwnerAdminModeratorOrReadOnly_has_permission("POST", actor)
       THEN Refuse(Deny(actor), None)
       ELSE IF errors # {}
       THEN Refuse("bad_request", errors)
       ELSE IF title \notin DOMAIN titles
       THEN Refuse("not_found", None)
       ELSE IF TitleReviewsGet(title, review_id) = {}
       THEN Refuse("server_error", None)
       ELSE Out("created", None, reviews, nextReviewId,
                comments \cup {new}, nextCommentId + 1)

\* PUT / PATCH .../comments/{pk}/
comment_update(actor, title, review_id, pk, data, partial) ==
    LET method == IF partial THEN "PATCH" ELSE "PUT"
        found == CommentLookup(review_id, pk)
        obj == CHOOSE c \in found : TRUE
        errors == CommentFieldErrors(data, partial)
    IN IF ~IsOwnerAdminModeratorOrReadOnly_has_permission(method, actor)
       THEN Refuse(Deny(actor), None)
       ELSE IF title \notin DOMAIN titles
       THEN Refuse("not_found", None)
       ELSE IF TitleReviewsGet(title, review_id) = {}
       THEN Refuse("server_error", None)
       ELSE IF found = {}
       THEN Refuse("not_found", None)
       ELSE IF ~IsOwnerAdminModeratorOrReadOnly_has_object_permission(
                   method, actor, obj)
       THEN Refuse(Deny(actor), None)
       ELSE IF errors # {}
       THEN Refuse("bad_request", errors)
       ELSE Out("ok", None, reviews, nextReviewId,
                (comments \ {obj}) \cup {Merge(obj, data)}, nextCommentId)

\* DELETE .../comments/{pk}/
comment_destroy(actor, title, review_id, pk) ==
    LET found == CommentLookup(review_id, pk)
        obj == CHOOSE c \in found : TRUE
    IN IF ~IsOwnerAdminModeratorOrReadOnly_has_permission("DELETE", actor)
       THEN Refuse(Deny(actor), None)
       ELSE IF title \notin DOMAIN titles
       THEN Refuse("not_found", None)
       ELSE IF TitleReviewsGet(title, review_id) = {}
       THEN Refuse("server_error", None)
       ELSE IF found = {}
       THEN Refuse("not_found", None)
       ELSE IF ~IsOwnerAdminModeratorOrReadOnly_has_object_permission(
                   "DELETE", actor, obj)
       THEN Refuse(Deny(actor), None)
       ELSE Out("no_content", None, reviews, nextReviewId,
                comments \ {obj}, nextCommentId)

CommentRead(actor, title, review_id, pk) ==
    Serve(IF pk = 0 THEN "list" ELSE "retrieve", "comment",
          comment_read(actor, title, review_id, pk))

CommentCreate(actor, title, review_id, data) ==
    LET o == comment_create(actor, title, review_id, data)
    IN /\ o.status = "created" => nextCommentId <= MaxComments
       /\ Serve("create", "comment", o)

CommentUpdate(actor, title, review_id, pk, data, partial) ==
    Serve(IF partial THEN "partial_update" ELSE "update", "comment",
          comment_update(actor, title, review_id, pk, data, partial))

CommentDestroy(actor, title, review_id, pk) ==
    Serve("destroy", "comment", comment_destroy(actor, title, review_id, pk))

-----------------------------------------------------------------------------
(* TitleViewSet, read side *)

\* GET /titles/{pk}/ : TitleReadSerializer, whose rating field is get_rating
title_retrieve(actor, pk) ==
    IF ~IsAdminOrReadOnly("GET", actor)
    THEN Refuse(Deny(actor), None)
    ELSE IF pk \notin DOMAIN titles
    THEN Refuse("not_found", None)
    ELSE Refuse("ok", get_rating(pk))

TitleRetrieve(actor, pk) ==
    Serve("retrieve", "title", title_retrieve(actor, pk))

-----------------------------------------------------------------------------
(* Catalog store: CategoryViewSet, GenreViewSet, TitleViewSet.  categories *)
(* and genres map each slug (unique) to its name.                          *)

\* what a handler of the catalog returns: the response, the catalog after
\* the request and, for the cascade of a deleted title, the feedback store
COut(status, data, cs, gs, ts, nt, rs, cms) ==
    [status |-> status, data |-> data, categories |-> cs, genres |-> gs,
     titles |-> ts, nextTitleId |-> nt, reviews |-> rs, comments |-> cms]

CRefuse(status, data) ==
    COut(status, data, categories, genres, titles, nextTitleId, reviews,
         comments)

ServeCatalog(op, resource, o) ==
    /\ request' = Req(op, resource)
    /\ response' = Resp(o.status, o.data)
    /\ categories' = o.categories
    /\ genres' = o.genres
    /\ titles' = o.titles
    /\ nextTitleId' = o.nextTitleId
    /\ reviews' = o.reviews
    /\ comments' = o.comments
    /\ UNCHANGED <<identityVars, nextReviewId, nextCommentId, inflight>>

\* reviews/models.py validate_year: TRUE when the value passes
validate_year(value) ==
    year_now >= value /\ value >= CINEMATOGRAPHY_CREATION_YEAR

Without(f, x) == [y \in DOMAIN f \ {x} |-> f[y]]

\* GET /categories/ (slug = "") and GET /categories/{slug}/, which
\* ListCreateDestroyViewSet does not route (405 after the permission check)
category_read(actor, slug) ==
    IF ~IsAdminOrReadOnly("GET", actor) THEN CRefuse(Deny(actor), None)
    ELSE IF slug = "" THEN CRefuse("ok", None)
    ELSE CRefuse("method_not_allowed", None)

\* POST /categories/ : CategorySerializer, slug under a UniqueValidator
category_create(actor, data) ==
    IF ~IsAdminOrReadOnly("POST", actor) THEN CRefuse(Deny(actor), None)
    ELSE IF data.slug \in DOMAIN categories
    THEN CRefuse("bad_request", {"slug"})
    ELSE COut("created", None, categories @@ (data.slug :> data.name),
              genres, titles, nextTitleId, reviews, comments)

\* PUT / PATCH /categories/{slug}/ : not routed
category_update(actor, slug, partial) ==
    IF ~IsAdminOrReadOnly(IF partial THEN "PATCH" ELSE "PUT", actor)
    THEN CRefuse(Deny(actor), None)
    ELSE CRefuse("method_not_allowed", None)

\* DELETE /categories/{slug}/ : Title.category is on_delete=SET_NULL
category_destroy(actor, slug) ==
    IF ~IsAdminOrReadOnly("DELETE", actor) THEN CRefuse(Deny(actor), None)
    ELSE IF slug \notin DOMAIN categories THEN CRefuse("not_found", None)
    ELSE COut("no_content", None, Without(categories, slug), genres,
              [t \in DOMAIN titles |->
                  IF titles[t].category = Some(slug)
                  THEN [titles[t] EXCEPT !.category = None]
                  ELSE titles[t]],
              nextTitleId, reviews, comments)

\* GET /genres/ (slug = "") and GET /genres/{slug}/ (GenreViewSet.retrieve
\* answers 405)
genre_read(actor, slug) ==
    IF ~IsAdminOrReadOnly("GET", actor) THEN CRefuse(Deny(actor), None)
    ELSE IF slug = "" THEN CRefuse("ok", None)
    ELSE CRefuse("method_not_allowed", None)

\* POST /genres/
genre_create(actor, data) ==
    IF ~IsAdminOrReadOnly("POST", actor) THEN CRefuse(Deny(actor), None)
    ELSE IF data.slug \in DOMAIN genres
    THEN CRefuse("bad_request", {"slug"})
    ELSE COut("created", None, categories, genres @@ (data.slug :> data.name),
              titles, nextTitleId, reviews, comments)

\* PUT / PATCH /genres/{slug}/ : not routed
genre_update(actor, slug, partial) ==
    IF ~IsAdminOrReadOnly(IF partial THEN "PATCH" ELSE "PUT", actor)
    THEN CRefuse(Deny(actor), None)
    ELSE CRefuse("method_not_allowed", None)

\* DELETE /genres/{slug}/ : the rows of GenreTitle lose their genre
genre_destroy(actor, slug) ==
    IF ~IsAdminOrReadOnly("DELETE", actor) THEN CRefuse(Deny(actor), None)
    ELSE IF slug \notin DOMAIN genres THEN CRefuse("not_found", None)
    ELSE COut("no_content", None, categories, Without(genres, slug),
              [t \in DOMAIN titles |->
                  [titles[t] EXCEPT !.genre = @ \ {slug}]],
              nextTitleId, reviews, comments)

\* Field validation of TitleWriteSerializer: name and year required, year
\* under validate_year, genre a required list of slugs of stored genres,
\* category a required slug of a stored category
TitleFieldErrors(data, partial) ==
    LET nameErr == IF "name" \in DOMAIN data THEN data.name = "" ELSE ~partial
        yearErr ==
            IF "year" \in DOMAIN data THEN ~validate_year(data.year)
            ELSE ~partial
        genreErr ==
            IF "genre" \in DOMAIN data
            THEN ~(data.genre \subseteq DOMAIN genres)
            ELSE ~partial
        categoryErr ==
            IF "category" \in DOMAIN data
            THEN data.category \notin DOMAIN categories
            ELSE ~partial
    IN (IF nameErr THEN {"name"} ELSE {})
       \cup (IF yearErr THEN {"year"} ELSE {})
       \cup (IF genreErr THEN {"genre"} ELSE {})
       \cup (IF categoryErr THEN {"category"} ELSE {})

\* the validated data as stored: the category becomes an optional reference
TitleStored(data) ==
    [f \in DOMAIN data |->
        IF f = "category" THEN Some(data[f]) ELSE data[f]]

\* GET /titles/ : every title, each with its rating
title_list(actor) ==
    IF ~IsAdminOrReadOnly("GET", actor) THEN CRefuse(Deny(actor), None)
    ELSE CRefuse("ok", None)

\* POST /titles/ : TitleWriteSerializer
title_create(actor, data) ==
    LET errors == TitleFieldErrors(data, FALSE)
    IN IF ~IsAdminOrReadOnly("POST", actor) THEN CRefuse(Deny(actor), None)
       ELSE IF errors # {} THEN CRefuse("bad_request", errors)
       ELSE COut("created", None, categories, genres,
                 titles @@ (nextTitleId :> TitleStored(data)),
                 nextTitleId + 1, reviews, comments)

\* PATCH /titles/{pk}/ : TitleWriteSerializer, partial
title_partial_update(actor, pk, data) ==
    LET errors == TitleFieldErrors(data, TRUE)
    IN IF ~IsAdminOrReadOnly("PATCH", actor) THEN CRefuse(Deny(actor), None)
       ELSE IF pk \notin DOMAIN titles THEN CRefuse("not_found", None)
       ELSE IF errors # {} THEN CRefuse("bad_request", errors)
       ELSE COut("ok", None, categories, genres,
                 [titles EXCEPT ![pk] = Merge(@, TitleStored(data))],
                 nextTitleId, reviews, comments)

\* PUT /titles/{pk}/ : get_serializer_class answers TitleReadSerializer for
\* PUT, whose nested genre and category serializers either reject the body
\* (400) or accept it (nested_valid) and make ModelSerializer.update raise
\* its assertion about nested writes (500)
title_update(actor, pk, nested_valid) ==
    IF ~IsAdminOrReadOnly("PUT", actor) THEN CRefuse(Deny(actor), None)
    ELSE IF pk \notin DOMAIN titles THEN CRefuse("not_found", None)
    ELSE IF ~nested_valid THEN CRefuse("bad_request", {"genre", "category"})
    ELSE CRefuse("server_error", None)

\* DELETE /titles/{pk}/ : Review.title and, through it, Comment.review are
\* on_delete=CASCADE
title_destroy(actor, pk) ==
    LET gone == {r \in reviews : r.title = pk}
    IN IF ~IsAdminOrReadOnly("DELETE", actor) THEN CRefuse(Deny(actor), None)
       ELSE IF pk \notin DOMAIN titles THEN CRefuse("not_found", None)
       ELSE COut("no_content", None, categories, genres, Without(titles, pk),
                 nextTitleId, reviews \ gone, comments \ CommentsOf(gone))

CategoryRead(actor, slug) ==
    ServeCatalog(IF slug = "" THEN "list" ELSE "retrieve", "category",
                 category_read(actor, slug))

CategoryCreate(actor, data) ==
    ServeCatalog("create", "category", category_create(actor, data))

CategoryUpdate(actor, slug, partial) ==
    ServeCatalog(IF partial THEN "partial_update" ELSE "update", "category",
                 category_update(actor, slug, partial))

CategoryDestroy(actor, slug) ==
    ServeCatalog("destroy", "category", category_destroy(actor, slug))

GenreRead(actor, slug) ==
    ServeCatalog(IF slug = "" THEN "list" ELSE "retrieve", "genre",
                 genre_read(actor, slug))

GenreCreate(actor, data) ==
    ServeCatalog("create", "genre", genre_create(actor, data))

GenreUpdate(actor, slug, partial) ==
    ServeCatalog(IF partial THEN "partial_update" ELSE "update", "genre",
                 genre_update(actor, slug, partial))

GenreDestroy(actor, slug) ==
    ServeCatalog("destroy", "genre", genre_destroy(actor, slug))

TitleList(actor) == ServeCatalog("list", "title", title_list(actor))

TitleCreate(actor, data) ==
    LET o == title_create(actor, data)
    IN /\ o.status = "created" => nextTitleId <= MaxTitles
       /\ ServeCatalog("create", "title", o)

TitlePartialUpdate(actor, pk, data) ==
    ServeCatalog("partial_update", "title",
                 title_partial_update(actor, pk, data))

TitleUpdate(actor, pk, nested_valid) ==
    ServeCatalog("update", "title", title_update(actor, pk, nested_valid))

TitleDestroy(actor, pk) ==
    ServeCatalog("destroy", "title", title_destroy(actor, pk))

-----------------------------------------------------------------------------
(* Identity store: EmailRegistrationView, AccessTokenView, UserViewSet,    *)
(* api/utils.py.  mail is the last message the mail backend delivered.     *)

\* what a handler of the identity store returns: the response, the users,
\* the last mail delivered and, for the cascade of a deleted user, the
\* feedback store
IOut(status, data, us, nu, m, rs, cms) ==
    [status |-> status, data |-> data, users |-> us, nextUserId |-> nu,
     mail |-> m, reviews |-> rs, comments |-> cms]

IRefuse(status, data) ==
    IOut(status, data, users, nextUserId, mail, reviews, comments)

ServeIdentity(op, resource, o) ==
    /\ request' = Req(op, resource)
    /\ response' = Resp(o.status, o.data)
    /\ users' = o.users
    /\ nextUserId' = o.nextUserId
    /\ mail' = o.mail
    /\ reviews' = o.reviews
    /\ comments' = o.comments
    /\ UNCHANGED <<catalogVars, nextReviewId, nextCommentId, inflight>>

\* CustomUser.objects.filter(username=...): at most one, username is unique
UsersNamed(username) == {u \in DOMAIN users : users[u].username = username}

UsersWithEmail(email) == {u \in DOMAIN users : users[u].email = email}

\* str(uuid.uuid3(uuid.NAMESPACE_DNS, username)): a fixed, non-blank
\* string for each username, different usernames giving different strings
uuid3(username) == "uuid3:" \o username

Message(to, code) == [to |-> to, code |-> code]

validate_username_anything(value) == TRUE

\* EmailSerializer.validate_username: TRUE when the value passes
validate_username(value) == value # "me"

\* Field validation of EmailSerializer (a ModelSerializer of CustomUser):
\* username and email each under the UniqueValidator of their unique
\* column, username also under validate_username
EmailFieldErrors(username, email) ==
    (IF UsersNamed(username) # {} \/ ~validate_username(username)
     THEN {"username"} ELSE {})
    \cup (IF UsersWithEmail(email) # {} THEN {"email"} ELSE {})

\* POST /auth/signup/ : serializer.save() inserts the user (role user,
\* blank confirmation_code), then mail_send sends user.confirmation_code;
\* send_mail(fail_silently=False) raises when the backend fails (mail_ok
\* FALSE), after the insert; the view opens no transaction, and Django
\* commits each query as it runs unless ATOMIC_REQUESTS is set
signup(username, email, mail_ok) ==
    LET errors == EmailFieldErrors(username, email)
        user == [username |-> username, email |-> email,
                 role |-> USER_ROLE_USER, is_superuser |-> FALSE,
                 bio |-> "", confirmation_code |-> ""]
        saved == users @@ (nextUserId :> user)
    IN IF errors # {} THEN IRefuse("bad_request", errors)
       ELSE IF ~mail_ok
       THEN IOut("server_error", None, saved, nextUserId + 1, mail,
                 reviews, comments)
       ELSE IOut("ok", None, saved, nextUserId + 1,
                 Some(Message(email, user.confirmation_code)),
                 reviews, comments)

confirmation_code_unchecked(user, confirmation_code) == FALSE

\* user.confirmation_code != confirmation_code
confirmation_code_differs(user, confirmation_code) ==
    user.confirmation_code # confirmation_code

\* POST /auth/token/ : ConfirmationCodeSerializer has two required,
\* non-blank CharFields; get_object_or_404 raises Http404 (the except
\* clause for DoesNotExist never runs); the token names the user
token(username, confirmation_code) ==
    LET errors ==
            (IF username = "" THEN {"username"} ELSE {})
            \cup (IF confirmation_code = "" THEN {"confirmation_code"}
                  ELSE {})
        found == UsersNamed(username)
        user == CHOOSE u \in found : TRUE
    IN IF errors # {} THEN IRefuse("bad_request", errors)
       ELSE IF found = {} THEN IRefuse("not_found", None)
       ELSE IF confirmation_code_differs(users[user], confirmation_code)
       THEN IRefuse("bad_request", {"confirmation_code"})
       ELSE IRefuse("ok", Some(user))

\* api/utils.py generate_and_send_confirmation_code_to_email: the code is
\* set on the instance, mailed, and saved only after send_mail returned
generate_and_send_confirmation_code_to_email(username, mail_ok) ==
    LET found == UsersNamed(username)
        user == CHOOSE u \in found : TRUE
        confirmation_code == uuid3(username)
    IN IF found = {} THEN IRefuse("not_found", None)
       ELSE IF ~mail_ok THEN IRefuse("server_error", None)
       ELSE IOut("ok", None,
                 [users EXCEPT ![user].confirmation_code = confirmation_code],
                 nextUserId,
                 Some(Message(users[user].email, confirmation_code)),
                 reviews, comments)

Signup(username, email, mail_ok) ==
    LET o == signup(username, email, mail_ok)
    IN /\ o.nextUserId # nextUserId => nextUserId <= MaxUsers
       /\ ServeIdentity("signup", "auth", o)

Token(username, confirmation_code) ==
    ServeIdentity("token", "auth", token(username, confirmation_code))

GenerateAndSendConfirmationCode(username, mail_ok) ==
    ServeIdentity("generate_code", "auth",
        generate_and_send_confirmation_code_to_email(username, mail_ok))

-----------------------------------------------------------------------------
(* UserViewSet *)

\* Field validation of UserSerializer: username and email required and
\* unique (the instance being updated excepted), role one of the choices
UserFieldErrors(data, partial, instance) ==
    LET usernameErr ==
            IF "username" \in DOMAIN data
            THEN UsersNamed(data.username) \ instance # {}
            ELSE ~partial
        emailErr ==
            IF "email" \in DOMAIN data
            THEN UsersWithEmail(data.email) \ instance # {}
            ELSE ~partial
        roleErr ==
            "role" \in DOMAIN data /\ data.role \notin USER_ROLE_CHOICES
    IN (IF usernameErr THEN {"username"} ELSE {})
       \cup (IF emailErr THEN {"email"} ELSE {})
       \cup (IF roleErr THEN {"role"} ELSE {})

MeSaveAsSent(actor, data) == data

\* serializer.save(role=request.user.role): the keyword overrides what the
\* validated data says about role
MeSave(actor, data) ==
    [f \in DOMAIN data \cup {"role"} |->
        IF f = "role" THEN users[actor].role ELSE data[f]]

\* GET /users/me/ : permission_classes=(IsAuthenticated,)
me_get(actor) ==
    IF ~is_authenticated(actor) THEN IRefuse(Deny(actor), None)
    ELSE IRefuse("ok", Some(actor))

\* PATCH /users/me/
me_patch(actor, data) ==
    LET errors == UserFieldErrors(data, TRUE, {actor})
    IN IF ~is_authenticated(actor) THEN IRefuse(Deny(actor), None)
       ELSE IF errors # {} THEN IRefuse("bad_request", errors)
       ELSE IOut("ok", Some(actor),
                 [users EXCEPT ![actor] = Merge(@, MeSave(actor, data))],
                 nextUserId, mail, reviews, comments)

\* GET /users/
user_list(actor) ==
    IF ~IsAdmin(actor) THEN IRefuse(Deny(actor), None)
    ELSE IRefuse("ok", None)

\* POST /users/ : UserSerializer; role and bio take the model's defaults
user_create(actor, data) ==
    LET errors == UserFieldErrors(data, FALSE, {})
        user == Merge([username |-> "", email |-> "",
                       role |-> USER_ROLE_USER, is_superuser |-> FALSE,
                       bio |-> "", confirmation_code |-> ""], data)
    IN IF ~IsAdmin(actor) THEN IRefuse(Deny(actor), None)
       ELSE IF errors # {} THEN IRefuse("bad_request", errors)
       ELSE IOut("created", None, users @@ (nextUserId :> user),
                 nextUserId + 1, mail, reviews, comments)

\* GET /users/{username}/ : the router matches /users/me/ to the me action
\* before the detail route
user_retrieve(actor, username) ==
    IF username = "me" THEN me_get(actor)
    ELSE IF ~IsAdmin(actor) THEN IRefuse(Deny(actor), None)
    ELSE IF UsersNamed(username) = {} THEN IRefuse("not_found", None)
    ELSE IRefuse("ok", UsersNamed(username))

\* PUT / PATCH /users/{username}/ ; on /users/me/ PATCH is the me action
\* and PUT is not routed
user_update(actor, username, data, partial) ==
    LET found == UsersNamed(username)
        user == CHOOSE u \in found : TRUE
        errors == UserFieldErrors(data, partial, {user})
    IN IF username = "me"
       THEN IF partial THEN me_patch(actor, data)
            ELSE IF ~is_authenticated(actor) THEN IRefuse(Deny(actor), None)
            ELSE IRefuse("method_not_allowed", None)
       ELSE IF ~IsAdmin(actor) THEN IRefuse(Deny(actor), None)
       ELSE IF found = {} THEN IRefuse("not_found", None)
       ELSE IF errors # {} THEN IRefuse("bad_request", errors)
       ELSE IOut("ok", found, [users EXCEPT ![user] = Merge(@, data)],
                 nextUserId, mail, reviews, comments)

\* DELETE /users/{username}/ (not routed on /users/me/): Review.author and
\* Comment.author are on_delete=CASCADE
user_destroy(actor, username) ==
    LET found == UsersNamed(username)
        user == CHOOSE u \in found : TRUE
        gone == {r \in reviews : r.author = user}
    IN IF username = "me"
       THEN IF ~is_authenticated(actor) THEN IRefuse(Deny(actor), None)
            ELSE IRefuse("method_not_allowed", None)
       ELSE IF ~IsAdmin(actor) THEN IRefuse(Deny(actor), None)
       ELSE IF found = {} THEN IRefuse("not_found", None)
       ELSE IOut("no_content", None, Without(users, user), nextUserId, mail,
                 reviews \ gone,
                 {c \in comments \ CommentsOf(gone) : c.author # user})

MeGet(actor) == ServeIdentity("retrieve", "me", me_get(actor))

MePatch(actor, data) ==
    ServeIdentity("partial_update", "me", me_patch(actor, data))

UserList(actor) == ServeIdentity("list", "user", user_list(actor))

UserCreate(actor, data) ==
    LET o == user_create(actor, data)
    IN /\ o.nextUserId # nextUserId => nextUserId <= MaxUsers
       /\ ServeIdentity("create", "user", o)

UserRetrieve(actor, username) ==
    ServeIdentity("retrieve", "user", user_retrieve(actor, username))

UserUpdate(actor, username, data, partial) ==
    ServeIdentity(IF partial THEN "partial_update" ELSE "update", "user",
                  user_update(actor, username, data, partial))

UserDestroy(actor, username) ==
    ServeIdentity("destroy", "user", user_destroy(actor, username))

-----------------------------------------------------------------------------
(* Stores the specifications start from, and the inputs of the requests *)

User(username, role, is_superuser) ==
    [username |-> username, email |-> username \o "@x", role |-> role,
     is_superuser |-> is_superuser, bio |-> "", confirmation_code |-> ""]

\* alice: user; bob: user made by createsuperuser; mod; adm
SeedUsers ==
    (1 :> User("alice", USER_ROLE_USER, FALSE))
    @@ (2 :> User("bob", USER_ROLE_USER, TRUE))
    @@ (3 :> User("mod", USER_ROLE_MODERATOR, FALSE))
    @@ (4 :> User("adm", USER_ROLE_ADMIN, FALSE))

Restrict(f, S) == [x \in S |-> f[x]]

Title(name) ==
    [name |-> name, year |-> CINEMATOGRAPHY_CREATION_YEAR, category |-> None,
     genre |-> {}]

SeedTitles == (1 :> Title("t1")) @@ (2 :> Title("t2"))

Actors == {Anonymous} \cup DOMAIN users

ReviewArgs == 1..MaxReviews
CommentArgs == 1..MaxComments

ScoreInputs == {0, 1, 10, 11}

\* request bodies: subsets of the writable fields
ReviewData ==
    {NoData, [f \in {"text"} |-> "a"], [score |-> 1, text |-> ""]}
    \cup {[f \in {"score"} |-> s] : s \in ScoreInputs}
    \cup {[score |-> s, text |-> "a"] : s \in ScoreInputs}

NoRequest == Req("none", "none")
NoResponse == Resp("none", None)

\* the state of a deployment with users and titles and no feedback yet
Start(us, nu, ts, nt) ==
    /\ users = us
    /\ nextUserId = nu
    /\ categories = NoData
    /\ genres = NoData
    /\ titles = ts
    /\ nextTitleId = nt
    /\ reviews = {}
    /\ nextReviewId = 1
    /\ comments = {}
    /\ nextCommentId = 1
    /\ mail = None
    /\ inflight = NoData
    /\ request = NoRequest
    /\ response = NoResponse

-----------------------------------------------------------------------------
(* Spec: the reviews of two titles, written by a user and a moderator *)

Init == Start(Restrict(SeedUsers, {1, 3}), 5, SeedTitles, 3)

Next ==
    \/ \E a \in Actors, t \in DOMAIN titles, pk \in {0} \cup ReviewArgs :
           ReviewRead(a, t, pk)
    \/ \E a \in Actors, t \in DOMAIN titles, d \in ReviewData :
           ReviewCreate(a, t, d)
    \/ \E a \in Actors, t \in DOMAIN titles, pk \in ReviewArgs,
          d \in ReviewData, partial \in BOOLEAN :
           ReviewUpdate(a, t, pk, d, partial)
    \/ \E a \in Actors, t \in DOMAIN titles, pk \in ReviewArgs :
           ReviewDestroy(a, t, pk)
    \/ \E a \in Actors, t \in DOMAIN titles \cup {nextTitleId} :
           TitleRetrieve(a, t)

Spec == Init /\ [][Next]_vars

-----------------------------------------------------------------------------
(* PermSpec: reviews and comments of one title, requested by anonymous     *)
(* callers, two users, a moderator and an admin                            *)

PermReviewData == {[score |-> 1, text |-> "a"], [score |-> 10, text |-> "a"]}
PermCommentData == {[f \in {"text"} |-> "a"], [f \in {"text"} |-> "b"]}

PermInit == Start(SeedUsers, 5, Restrict(SeedTitles, {1}), 3)

PermNext ==
    \/ \E a \in Actors, t \in DOMAIN titles, pk \in {0} \cup ReviewArgs :
           ReviewRead(a, t, pk)
    \/ \E a \in Actors, t \in DOMAIN titles, d \in PermReviewData :
           ReviewCreate(a, t, d)
    \/ \E a \in Actors, t \in DOMAIN titles, pk \in ReviewArgs,
          d \in PermReviewData, partial \in BOOLEAN :
           ReviewUpdate(a, t, pk, d, partial)
    \/ \E a \in Actors, t \in DOMAIN titles, pk \in ReviewArgs :
           ReviewDestroy(a, t, pk)
    \/ \E a \in Actors, t \in DOMAIN titles, r \in ReviewArgs,
          pk \in {0} \cup CommentArgs :
           CommentRead(a, t, r, pk)
    \/ \E a \in Actors, t \in DOMAIN titles, r \in ReviewArgs,
          d \in PermCommentData :
           CommentCreate(a, t, r, d)
    \/ \E a \in Actors, t \in DOMAIN titles, r \in ReviewArgs,
          pk \in CommentArgs, d \in PermCommentData, partial \in BOOLEAN :
           CommentUpdate(a, t, r, pk, d, partial)
    \/ \E a \in Actors, t \in DOMAIN titles, r \in ReviewArgs,
          pk \in CommentArgs :
           CommentDestroy(a, t, r, pk)

PermSpec == PermInit /\ [][PermNext]_vars

-----------------------------------------------------------------------------
(* Properties of the feedback store *)

FeedbackUntouched(o) ==
    /\ o.reviews = reviews
    /\ o.comments = comments
    /\ o.nextReviewId = nextReviewId
    /\ o.nextCommentId = nextCommentId

HasReviewed(a, t) == \E r \in reviews : r.author = a /\ r.title = t

\* C1: the feedback store never holds two reviews of one author on one
\* title, and a create request by an author who already reviewed the title
\* is rejected as a validation error and changes nothing, whatever score
\* and text it carries.
C1_OneReviewPerAuthorTitle ==
    /\ \A a \in DOMAIN users, t \in DOMAIN titles :
           Cardinality({r \in reviews : r.author = a /\ r.title = t}) <= 1
    /\ \A a \in DOMAIN users, t \in DOMAIN titles, d \in ReviewData :
           HasReviewed(a, t) =>
               LET o == review_create(a, t, d)
               IN o.status = "bad_request" /\ FeedbackUntouched(o)

\* a second create by the author of a stored review has just been refused
C1_Witness ==
    /\ request = Req("create", "review")
    /\ response.status = "bad_request"
    /\ "title" \in response.data
    /\ Cardinality(reviews) = 2

ClaimPermitted(op, a, author) ==
    \/ op \in {"list", "retrieve"}
    \/ op = "create" /\ a \in DOMAIN users
    \/ /\ op \in {"update", "partial_update", "destroy"}
       /\ a \in DOMAIN users
       /\ (author = a
           \/ users[a].role \in {USER_ROLE_MODERATOR, USER_ROLE_ADMIN})

PermissionAsClaimed(op, a, author, o) ==
    /\ (o.status \in Denied) <=> ~ClaimPermitted(op, a, author)
    /\ (o.status \in Denied) => FeedbackUntouched(o)

NearestHalfEven(total, n) ==
    CHOOSE k \in 0..total :
        LET d == IF total >= k * n THEN total - k * n ELSE k * n - total
        IN 2 * d < n \/ (2 * d = n /\ k % 2 = 0)

ExpectedRating(t) ==
    LET rs == {r \in reviews : r.title = t}
    IN IF rs = {} THEN None
       ELSE Some(NearestHalfEven(SumScores(rs), Cardinality(rs)))

\* C5: after any sequence of review requests, reading a title returns the
\* rating computed from exactly the reviews now stored for that title, and
\* None (not zero) exactly when the title has no review.
C5_RatingFromCurrentReviews ==
    \A a \in Actors, t \in DOMAIN titles :
        LET o == title_retrieve(a, t)
        IN /\ o.status = "ok"
           /\ o.data = ExpectedRating(t)
           /\ (o.data = None) <=> ~(\E r \in reviews : r.title = t)

\* a title with a review has just been read while the other title has a
\* review with another score
C5_Witness ==
    /\ request = Req("retrieve", "title")
    /\ response.status = "ok"
    /\ response.data # None
    /\ \E r1, r2 \in reviews : r1.title # r2.title /\ r1.score # r2.score

-----------------------------------------------------------------------------
(* RatingSpec: a title is read whose reviews, by distinct authors, carry   *)
(* any scores from 1 to 10                                                 *)

ScoredReviews(f) ==
    {[id |-> i, author |-> i, title |-> 1, score |-> f[i], text |-> "a"] :
        i \in DOMAIN f}

RatingInit ==
    /\ \E n \in 1..MaxScores : \E f \in [1..n -> 1..10] :
           /\ n <= Cardinality(DOMAIN SeedUsers)
           /\ reviews = ScoredReviews(f)
           /\ nextReviewId = n + 1
    /\ users = SeedUsers
    /\ nextUserId = 5
    /\ categories = NoData
    /\ genres = NoData
    /\ titles = Restrict(SeedTitles, {1})
    /\ nextTitleId = 3
    /\ comments = {}
    /\ nextCommentId = 1
    /\ mail = None
    /\ inflight = NoData
    /\ request = NoRequest
    /\ response = NoResponse

RatingNext == \E a \in Actors, t \in DOMAIN titles : TitleRetrieve(a, t)

RatingSpec == RatingInit /\ [][RatingNext]_vars

\* the nearest integer to total / n, an exact half going up
NearestHalfUp(total, n) ==
    CHOOSE k \in 0..(total + 1) :
        LET d == IF total >= k * n THEN total - k * n ELSE k * n - total
        IN 2 * d < n \/ (2 * d = n /\ k * n > total)

TitleWasRead ==
    /\ request = Req("retrieve", "title")
    /\ response.status = "ok"
    /\ reviews # {}

\* the scores of the stored reviews are exactly those of the sequence seq
ScoresAre(seq) ==
    \E f \in [1..Len(seq) -> {r.id : r \in reviews}] :
        /\ \A i, j \in 1..Len(seq) : i # j => f[i] # f[j]
        /\ Cardinality(reviews) = Len(seq)
        /\ \A i \in 1..Len(seq) : \E r \in reviews :
               r.id = f[i] /\ r.score = seq[i]

\* C4 as stated: the rating read is the mean of the scores rounded to the
\* nearest integer, an exact half rounded up.
C4_RoundHalfUp_AsStated ==
    TitleWasRead =>
        response.data =
            Some(NearestHalfUp(SumScores(reviews), Cardinality(reviews)))

\* C4 amended: the rating read is the mean of the scores rounded to the
\* nearest integer, an exact half rounded to the even neighbour (Python's
\* round); scores [7,8] give 8 and scores [3,5,10] give 6.
C4_RoundHalfEven ==
    TitleWasRead =>
        /\ response.data =
               Some(NearestHalfEven(SumScores(reviews), Cardinality(reviews)))
        /\ ScoresAre(<<7, 8>>) => response.data = Some(8)
        /\ ScoresAre(<<3, 5, 10>>) => response.data = Some(6)

\* a title whose scores are 2 and 3 (mean 2.5) has been read as 2
C4_Witness ==
    /\ TitleWasRead
    /\ ScoresAre(<<2, 3>>)
    /\ response.data = Some(2)

-----------------------------------------------------------------------------
(* CatalogSpec: categories, genres and titles, requested by anonymous      *)
(* callers, a user, a superuser, a moderator and an admin                  *)

CategorySlugs == {"c1", "c2"}
GenreSlugs == {"g1"}
SlugData(slugs) == {[name |-> "n", slug |-> x] : x \in slugs}

YearInputs ==
    {CINEMATOGRAPHY_CREATION_YEAR - 1, CINEMATOGRAPHY_CREATION_YEAR,
     year_now, year_now + 1}

TitleArgs == 1..MaxTitles

TitleData ==
    {[name |-> "t", year |-> y, genre |-> g, category |-> c] :
        y \in YearInputs, g \in SUBSET GenreSlugs, c \in CategorySlugs}

TitlePatchData ==
    {NoData}
    \cup {[f \in {"year"} |-> y] : y \in YearInputs}
    \cup {[f \in {"genre"} |-> g] : g \in SUBSET GenreSlugs}
    \cup {[f \in {"category"} |-> c] : c \in CategorySlugs}

CatalogInit == Start(SeedUsers, 5, Restrict(SeedTitles, {}), 1)

CatalogNext ==
    \/ \E a \in Actors, x \in {""} \cup CategorySlugs : CategoryRead(a, x)
    \/ \E a \in Actors, d \in SlugData(CategorySlugs) : CategoryCreate(a, d)
    \/ \E a \in Actors, x \in CategorySlugs, partial \in BOOLEAN :
           CategoryUpdate(a, x, partial)
    \/ \E a \in Actors, x \in CategorySlugs : CategoryDestroy(a, x)
    \/ \E a \in Actors, x \in {""} \cup GenreSlugs : GenreRead(a, x)
    \/ \E a \in Actors, d \in SlugData(GenreSlugs) : GenreCreate(a, d)
    \/ \E a \in Actors, x \in GenreSlugs, partial \in BOOLEAN :
           GenreUpdate(a, x, partial)
    \/ \E a \in Actors, x \in GenreSlugs : GenreDestroy(a, x)
    \/ \E a \in Actors : TitleList(a)
    \/ \E a \in Actors, pk \in TitleArgs : TitleRetrieve(a, pk)
    \/ \E a \in Actors, d \in TitleData : TitleCreate(a, d)
    \/ \E a \in Actors, pk \in TitleArgs, d \in TitlePatchData :
           TitlePartialUpdate(a, pk, d)
    \/ \E a \in Actors, pk \in TitleArgs, v \in BOOLEAN :
           TitleUpdate(a, pk, v)
    \/ \E a \in Actors, pk \in TitleArgs : TitleDestroy(a, pk)

CatalogSpec == CatalogInit /\ [][CatalogNext]_vars

CatalogUntouched(o) ==
    /\ o.categories = categories
    /\ o.genres = genres
    /\ o.titles = titles
    /\ o.nextTitleId = nextTitleId

ClaimCatalogPermitted(op, a) ==
    \/ op \in {"list", "retrieve"}
    \/ /\ a \in DOMAIN users
       /\ (users[a].role = USER_ROLE_ADMIN \/ users[a].is_superuser)

CatalogPermissionAsClaimed(op, a, o) ==
    /\ (o.status \in Denied) <=> ~ClaimCatalogPermitted(op, a)
    /\ (o.status \in Denied) => CatalogUntouched(o)

\* C3: a request on a category, genre or title is denied exactly when it is
\* a write by an actor who is anonymous or has neither the role admin nor
\* the superuser flag; reads are never denied; a denied request leaves the
\* catalog unchanged.
C3_CatalogPermissions ==
    \A a \in Actors :
        /\ \A x \in {""} \cup CategorySlugs :
               CatalogPermissionAsClaimed("list", a, category_read(a, x))
        /\ \A x \in {""} \cup GenreSlugs :
               CatalogPermissionAsClaimed("list", a, genre_read(a, x))
        /\ CatalogPermissionAsClaimed("list", a, title_list(a))
        /\ \A pk \in TitleArgs :
               title_retrieve(a, pk).status \notin Denied
        /\ \A d \in SlugData(CategorySlugs) :
               CatalogPermissionAsClaimed("create", a, category_create(a, d))
        /\ \A d \in SlugData(GenreSlugs) :
               CatalogPermissionAsClaimed("create", a, genre_create(a, d))
        /\ \A d \in TitleData :
               CatalogPermissionAsClaimed("create", a, title_create(a, d))
        /\ \A x \in CategorySlugs :
               /\ CatalogPermissionAsClaimed("destroy", a,
                                             category_destroy(a, x))
               /\ \A p \in BOOLEAN :
                      CatalogPermissionAsClaimed("update", a,
                                                 category_update(a, x, p))
        /\ \A x \in GenreSlugs :
               /\ CatalogPermissionAsClaimed("destroy", a,
                                             genre_destroy(a, x))
               /\ \A p \in BOOLEAN :
                      CatalogPermissionAsClaimed("update", a,
                                                 genre_update(a, x, p))
        /\ \A pk \in TitleArgs :
               /\ CatalogPermissionAsClaimed("destroy", a,
                                             title_destroy(a, pk))
               /\ \A d \in TitlePatchData :
                      CatalogPermissionAsClaimed(
                          "partial_update", a, title_partial_update(a, pk, d))
               /\ \A v \in BOOLEAN :
                      CatalogPermissionAsClaimed("update", a,
                                                 title_update(a, pk, v))

\* an authenticated actor without the admin role or the superuser flag has
\* just been refused the creation of a category, after an admin created one
C3_Witness ==
    /\ request = Req("create", "category")
    /\ response.status = "permission_denied"
    /\ DOMAIN categories # {}

-----------------------------------------------------------------------------
(* SignupSpec: registration and the exchange of a confirmation code for a  *)
(* token, starting from an empty identity store                            *)

UsernameInputs == {"me", "ann", "bob"}
EmailInputs == {"ann@x", "bob@x"}
CodeInputs == {""} \cup {uuid3(n) : n \in UsernameInputs}

SignupInit ==
    Start(Restrict(SeedUsers, {}), 1, Restrict(SeedTitles, {}), 1)

SignupNext ==
    \/ \E n \in UsernameInputs, e \in EmailInputs, ok \in BOOLEAN :
           Signup(n, e, ok)
    \/ \E n \in UsernameInputs, c \in CodeInputs : Token(n, c)
    \/ \E n \in UsernameInputs, ok \in BOOLEAN :
           GenerateAndSendConfirmationCode(n, ok)

SignupSpec == SignupInit /\ [][SignupNext]_vars

IdentityUntouched(o) ==
    /\ o.users = users
    /\ o.nextUserId = nextUserId
    /\ o.mail = mail

\* C6 as the claim states it: after a successful registration the new User
\* record exists, a confirmation code has been generated and stored on it
\* (the stored code is not blank), the message delivered carries that stored
\* code to the user's email, and exchanging (username, delivered code)
\* issues a credential.
C6_RegistrationGeneratesCode ==
    (request = Req("signup", "auth") /\ response.status = "ok") =>
        LET u == nextUserId - 1
        IN /\ u \in DOMAIN users
           /\ users[u].confirmation_code # ""
           /\ mail = Some(Message(users[u].email, users[u].confirmation_code))
           /\ \A m \in mail : token(users[u].username, m.code).status = "ok"

\* C7: in every state and for every credential exchange with a username and
\* a code, a credential is issued only if a user of that name exists and the
\* code equals the code stored for that user, and it names that user; a
\* well-formed exchange (both fields given) for an unknown username is
\* rejected as not found and one whose code differs from the stored code is
\* rejected as invalid; a rejection issues nothing and no exchange changes
\* the identity store.
C7_TokenRejections ==
    \A n \in UsernameInputs \cup {""}, c \in CodeInputs :
        LET o == token(n, c)
            found == UsersNamed(n)
        IN /\ IdentityUntouched(o)
           /\ o.status \in {"ok", "not_found", "bad_request"}
           /\ o.status = "ok" =>
                  /\ \E u \in found : /\ users[u].confirmation_code = c
                                      /\ o.data = Some(u)
           /\ o.status # "ok" =>
                  o.data \subseteq {"username", "confirmation_code"}
           /\ (n # "" /\ c # "" /\ found = {}) => o.status = "not_found"
           /\ (n # "" /\ c # "" /\ found # {}
               /\ \A u \in found : users[u].confirmation_code # c)
                  => o.status = "bad_request"

\* a credential was issued for a stored, non-blank code while another user
\* is registered whose code it is not
C7_Witness ==
    /\ request = Req("token", "auth")
    /\ response.status = "ok"
    /\ \E u \in DOMAIN users :
           /\ response.data = Some(u)
           /\ users[u].confirmation_code # ""
           /\ \E v \in DOMAIN users :
                  /\ v # u
                  /\ token(users[v].username,
                           users[u].confirmation_code).status = "bad_request"

\* C8 as the claim states it: a registration request for a username that is
\* already registered is answered without error, stores a confirmation code
\* the old one differs from, delivers the new code to the user's email, and
\* creates no second User record.
C8_ReRegistrationRegenerates ==
    \A u \in DOMAIN users :
        LET o == signup(users[u].username, users[u].email, TRUE)
        IN /\ o.status = "ok"
           /\ DOMAIN o.users = DOMAIN users
           /\ o.users[u].confirmation_code # users[u].confirmation_code
           /\ o.mail = Some(Message(users[u].email,
                                    o.users[u].confirmation_code))

-----------------------------------------------------------------------------
(* ProfileSpec: the users endpoints, starting from an administrator and a  *)
(* superuser whose role is user                                            *)

ProfileUsers ==
    (1 :> User("adm", USER_ROLE_ADMIN, FALSE))
    @@ (2 :> User("bob", USER_ROLE_USER, TRUE))

ProfileNames == {"me", "adm", "bob", "zed"}

ProfileData ==
    {NoData,
     [role |-> USER_ROLE_ADMIN, bio |-> "b"],
     [f \in {"role"} |-> "owner"],
     [f \in {"username"} |-> "me"],
     [f \in {"email"} |-> "bob@x"],
     [username |-> "zed", email |-> "zed@x"]}

ProfileInit ==
    Start(ProfileUsers, 3, Restrict(SeedTitles, {}), 1)

ProfileNext ==
    \/ \E a \in Actors : MeGet(a)
    \/ \E a \in Actors, d \in ProfileData : MePatch(a, d)
    \/ \E a \in Actors : UserList(a)
    \/ \E a \in Actors, d \in ProfileData : UserCreate(a, d)
    \/ \E a \in Actors, n \in ProfileNames : UserRetrieve(a, n)
    \/ \E a \in Actors, n \in ProfileNames, d \in ProfileData,
          partial \in BOOLEAN : UserUpdate(a, n, d, partial)
    \/ \E a \in Actors, n \in ProfileNames : UserDestroy(a, n)

ProfileSpec == ProfileInit /\ [][ProfileNext]_vars

\* what the claim takes a self-update to be: the role, when supplied, is one
\* of the roles, and the username and email supplied are not another user's
WellFormedSelfUpdate(a, d) ==
    /\ "role" \in DOMAIN d => d.role \in USER_ROLE_CHOICES
    /\ "username" \in DOMAIN d =>
           \A v \in DOMAIN users \ {a} : users[v].username # d.username
    /\ "email" \in DOMAIN d =>
           \A v \in DOMAIN users \ {a} : users[v].email # d.email

-----------------------------------------------------------------------------
(* ConcSpec: create-review requests served concurrently.  A request first  *)
(* runs the validation of the serializer against the reviews stored at     *)
(* that moment and later, in a step of its own, the insert; inflight maps  *)
(* a worker to the request it serves and how far that request has come.    *)

Workers == 1..MaxInflight

ConcData ==
    {[score |-> 1, text |-> "a"], [score |-> 10, text |-> "a"],
     [score |-> 11, text |-> "a"]}

\* a worker takes a request and runs it up to serializer.is_valid
ReviewCreateValidate(w, actor, title, data) ==
    LET v == review_create_validate(actor, title, data)
    IN /\ w \notin DOMAIN inflight
       /\ inflight' = inflight @@ (w :> [author |-> actor, title |-> title,
                                         data |-> data, status |-> v.status])
       /\ request' = Req("create", "review")
       /\ response' = IF v.status = "valid" THEN response
                      ELSE Resp(v.status, v.data)
       /\ UNCHANGED <<identityVars, catalogVars, feedbackVars>>

\* the worker goes on to perform_create and answers
ReviewCreateSave(w) ==
    /\ w \in DOMAIN inflight
    /\ inflight[w].status = "valid"
    /\ LET r == inflight[w]
           o == perform_create(r.author, r.title, r.data)
       IN /\ o.status = "created" => nextReviewId <= MaxReviews
          /\ inflight' = [inflight EXCEPT ![w].status = o.status]
          /\ request' = Req("create", "review")
          /\ response' = Resp(o.status, o.data)
          /\ reviews' = o.reviews
          /\ nextReviewId' = o.nextReviewId
          /\ comments' = o.comments
          /\ nextCommentId' = o.nextCommentId
          /\ UNCHANGED <<identityVars, catalogVars>>

ConcInit ==
    Start(Restrict(SeedUsers, {1, 3}), 5, SeedTitles, 3)

ConcNext ==
    \/ \E w \in Workers, a \in Actors, t \in DOMAIN titles, d \in ConcData :
           ReviewCreateValidate(w, a, t, d)
    \/ \E w \in Workers : ReviewCreateSave(w)

ConcSpec == ConcInit /\ [][ConcNext]_vars

\* the requests the claim is about: by an author, for a title that exists,
\* with a score of 1..10 and a text
CreatesFor(a, t) ==
    {w \in DOMAIN inflight :
        /\ inflight[w].author = a
        /\ inflight[w].title = t
        /\ inflight[w].data.score \in 1..10
        /\ inflight[w].data.text # ""}

-----------------------------------------------------------------------------
(* ScoreSpec: reviews created and updated by an author, a moderator and an *)
(* administrator with scores around the bounds of validate_score           *)

ScoreData ==
    {[score |-> sc, text |-> "a"] : sc \in ScoreInputs}
    \cup {[f \in {"score"} |-> sc] : sc \in ScoreInputs}

ScoreInit ==
    Start(Restrict(SeedUsers, {1, 3, 4}), 5, Restrict(SeedTitles, {1}), 3)

ScoreNext ==
    \/ \E a \in Actors, t \in DOMAIN titles, d \in ScoreData :
           ReviewCreate(a, t, d)
    \/ \E a \in Actors, t \in DOMAIN titles, pk \in ReviewArgs,
          d \in ScoreData, partial \in BOOLEAN :
           ReviewUpdate(a, t, pk, d, partial)

ScoreSpec == ScoreInit /\ [][ScoreNext]_vars

Accepted == {"created", "ok"}

\* C11: every stored review has a score of 1..10; in every state a create
\* or an update (full or partial) by any actor that carries a score below 1
\* or above 10 is not accepted and leaves the feedback store as it is; a
\* score of 1 or 10 is never the field in error, a create carrying it with
\* a text by a user who has not reviewed the title is accepted, and so is a
\* partial update carrying it by the author, a moderator or an
\* administrator.
C11_ScoreWithinBounds ==
    /\ \A r \in reviews : r.score \in 1..10
    /\ \A a \in Actors, t \in DOMAIN titles, d \in ScoreData :
           LET o == review_create(a, t, d)
           IN /\ d.score \notin 1..10 =>
                     o.status \notin Accepted /\ FeedbackUntouched(o)
              /\ d.score \in {1, 10} =>
                     /\ o.status = "bad_request" => "score" \notin o.data
                     /\ (is_authenticated(a) /\ ~HasReviewed(a, t)
                         /\ "text" \in DOMAIN d) => o.status = "created"
    /\ \A a \in Actors, t \in DOMAIN titles, pk \in ReviewArgs,
          d \in ScoreData, partial \in BOOLEAN :
           LET o == review_update(a, t, pk, d, partial)
           IN /\ d.score \notin 1..10 =>
                     o.status \notin Accepted /\ FeedbackUntouched(o)
              /\ d.score \in {1, 10} =>
                     /\ o.status = "bad_request" => "score" \notin o.data
                     /\ (partial /\ \E r \in reviews :
                            /\ r.id = pk /\ r.title = t
                            /\ \/ r.author = a
                               \/ /\ a \in DOMAIN users
                                  /\ users[a].role \in {USER_ROLE_MODERATOR,
                                                        USER_ROLE_ADMIN})
                            => o.status = "ok"

\* an update carrying a score out of range has just been refused for its
\* score while the store holds a review of score 1 and a review of score 10
C11_Witness ==
    /\ request.resource = "review"
    /\ request.op \in {"update", "partial_update"}
    /\ response.status = "bad_request"
    /\ "score" \in response.data
    /\ \E r1, r2 \in reviews : r1.score = 1 /\ r2.score = 10

-----------------------------------------------------------------------------
\* C12 as the claim states it: a registration request that ends in an error
\* (a reserved or taken username, a taken email, a failure of the mail
\* backend) leaves the identity store exactly as it was before the request.
C12_RegistrationAllOrNothing ==
    [][(request'.op = "signup" /\ response'.status # "ok")
           => (users' = users /\ nextUserId' = nextUserId)]_vars

\* C13 as the claim states it: in every state, for every stored review, an
\* update request by its author, full or partial, that carries a text and a
\* score of 1..10 is accepted and applied: afterwards the review holds the
\* text and the score of the request.
C13_AuthorCanEdit ==
    \A r \in reviews, d \in ReviewData, partial \in BOOLEAN :
        (DOMAIN d = {"score", "text"} /\ d.score \in 1..10 /\ d.text # "") =>
            LET o == review_update(r.author, r.title, r.id, d, partial)
            IN /\ o.status = "ok"
               /\ \E n \in o.reviews :
                      /\ n.id = r.id /\ n.author = r.author
                      /\ n.score = d.score /\ n.text = d.text

\* C14 as the claim states it: in every reachable state no User record has
\* the username 'me', the name the route /users/me/ takes from the
\* usernames the detail route /users/{username}/ can address.
C14_NoUserNamedMe ==
    \A u \in DOMAIN users : users[u].username # "me"

====
